---- MODULE Spec2Model ----
(***************************************************************************)
(* Model of src/cms_orthopedic_collector.py: the CMSOrthopedicCollector    *)
(* pipeline (fetch, classify, extract, deduplicate, persist, audit-log)    *)
(* and the multi-year driver run_full_collection.                          *)
(*                                                                         *)
(* Conventions.  Text values that the code only compares, stores or tests  *)
(* for emptiness (NPI, street, ZIP, HCPCS code) are TLA+ strings.  Text    *)
(* values the code upper-cases and searches (city, provider type) and the  *)
(* raw numeric fields are values [k, s, n]: k is "missing" (key absent),   *)
(* "null" (JSON null), "str" (s is the sequence of characters) or "num"    *)
(* (n is the number in tenths, so 25 stands for 2.5).  Floats of the       *)
(* ProcedureData are kept in tenths as well.                               *)
(***************************************************************************)
EXTENDS Integers, Sequences, FiniteSets, TLC

\* ------------------------------------------------------------------ bounds
MaxRecords == 2    \* records in one API response / rows in one direct batch
MaxCalls   == 2    \* calls of collect_year_data and save_physician_data
                   \* in one behaviour

\* ------------------------------------------------------------ raw values
Missing == [k |-> "missing", s |-> <<>>, n |-> 0]
Null    == [k |-> "null", s |-> <<>>, n |-> 0]
Str(cs) == [k |-> "str", s |-> cs, n |-> 0]
Num(t)  == [k |-> "num", s |-> <<>>, n |-> t]

\* dict.get(key, default): the default only replaces an absent key
Get(v, default) == IF v.k = "missing" THEN default ELSE v

\* Python truthiness of a raw value (None, "", 0 and 0.0 are falsy)
Truthy(v) ==
    CASE v.k = "missing" -> FALSE
      [] v.k = "null"    -> FALSE
      [] v.k = "str"     -> v.s # <<>>
      [] OTHER           -> v.n # 0

\* ------------------------------------------------------------ str methods
LowerCase == <<"a","b","c","d","e","f","g","h","i","j","k","l","m",
               "n","o","p","q","r","s","t","u","v","w","x","y","z">>
UpperCase == <<"A","B","C","D","E","F","G","H","I","J","K","L","M",
               "N","O","P","Q","R","S","T","U","V","W","X","Y","Z">>

UpperChar(c) ==
    IF \E i \in 1..26 : LowerCase[i] = c
    THEN UpperCase[CHOOSE i \in 1..26 : LowerCase[i] = c]
    ELSE c

\* str.upper()
Upper(cs) == [i \in 1..Len(cs) |-> UpperChar(cs[i])]

\* sub in cs  (substring test)
Contains(sub, cs) ==
    \E i \in 0..(Len(cs) - Len(sub)) : SubSeq(cs, i + 1, i + Len(sub)) = sub

Digits == <<"0","1","2","3","4","5","6","7","8","9">>
IsDigit(c) == \E i \in 1..10 : Digits[i] = c
DigitVal(c) == (CHOOSE i \in 1..10 : Digits[i] = c) - 1

RECURSIVE DecVal(_)
DecVal(cs) ==
    IF cs = <<>> THEN 0
    ELSE 10 * DecVal(SubSeq(cs, 1, Len(cs) - 1)) + DigitVal(cs[Len(cs)])

AllDigits(cs) == cs # <<>> /\ \A i \in 1..Len(cs) : IsDigit(cs[i])

\* a decimal literal with exactly one digit after the point, e.g. "2.5"
IsDecimal1(cs) ==
    /\ Len(cs) >= 3
    /\ cs[Len(cs) - 1] = "."
    /\ AllDigits(SubSeq(cs, 1, Len(cs) - 2))
    /\ IsDigit(cs[Len(cs)])

\* ---------------------------------------------------- int() and float()
\* Results are [ok, v]; ok = FALSE is a raised ValueError/TypeError.
\* int(x): a number truncates, a string must be an integer literal.
PyInt(v) ==
    CASE v.k = "num" -> [ok |-> TRUE, v |-> v.n \div 10]
      [] v.k = "str" -> IF AllDigits(v.s) THEN [ok |-> TRUE, v |-> DecVal(v.s)]
                        ELSE [ok |-> FALSE, v |-> 0]
      [] OTHER       -> [ok |-> FALSE, v |-> 0]

\* float(x), in tenths: a string may be an integer or a decimal literal.
PyFloat(v) ==
    CASE v.k = "num" -> [ok |-> TRUE, v |-> v.n]
      [] v.k = "str" ->
            IF AllDigits(v.s) THEN [ok |-> TRUE, v |-> 10 * DecVal(v.s)]
            ELSE IF IsDecimal1(v.s)
                 THEN [ok |-> TRUE,
                       v |-> 10 * DecVal(SubSeq(v.s, 1, Len(v.s) - 2))
                             + DigitVal(v.s[Len(v.s)])]
                 ELSE [ok |-> FALSE, v |-> 0]
      [] OTHER       -> [ok |-> FALSE, v |-> 0]

\* record.get(field, 0) or 0
OrZero(v) == IF Truthy(Get(v, Num(0))) THEN Get(v, Num(0)) ELSE Num(0)

\* int(record.get(field, 0) or 0)   and   float(record.get(field, 0) or 0)
IntField(v)   == PyInt(OrZero(v))
FloatField(v) == PyFloat(OrZero(v))

\* ------------------------------------------------------------ the fetcher
resource_ids == {2018, 2019, 2020, 2021, 2022}

atlanta_zips ==
    {"30309", "30324", "30326", "30327", "30305", "30306", "30307", "30308",
     "30310", "30311", "30312", "30313", "30314", "30315", "30316",
     "30317", "30318", "30319", "30325", "30328",
     "30329", "30331", "30332", "30334", "30336", "30337", "30338", "30339",
     "30340", "30341", "30342", "30344", "30345", "30346", "30347", "30348",
     "30349", "30350", "30354", "30360", "30361", "30363", "30364", "30366",
     "30368", "30369", "30370", "30371", "30374", "30375", "30376", "30377",
     "30378", "30380", "30384", "30385", "30388", "30392", "30394", "30396",
     "30398"}

ATLANTA    == <<"A","T","L","A","N","T","A">>
DECATUR    == <<"D","E","C","A","T","U","R">>
MARIETTA   == <<"M","A","R","I","E","T","T","A">>
ROSWELL    == <<"R","O","S","W","E","L","L">>
ALPHARETTA == <<"A","L","P","H","A","R","E","T","T","A">>

orthopedic_specialties ==
    { <<"O","r","t","h","o","p","e","d","i","c"," ","S","u","r","g","e","r","y">>,
      <<"O","r","t","h","o","p","a","e","d","i","c"," ","S","u","r","g","e","r","y">>,
      <<"H","a","n","d"," ","S","u","r","g","e","r","y">>,
      <<"S","p","o","r","t","s"," ","M","e","d","i","c","i","n","e">>,
      <<"I","n","t","e","r","v","e","n","t","i","o","n","a","l"," ",
        "P","a","i","n"," ","M","a","n","a","g","e","m","e","n","t">> }

\* record.get('Rndrng_Prvdr_City', '').upper() and specialty.upper() raise
\* AttributeError when the value is present but not a string
ClassifyRaises(record) ==
    \/ Get(record.Rndrng_Prvdr_City, Str(<<>>)).k # "str"
    \/ Get(record.Provider_Type, Str(<<>>)).k # "str"

is_atlanta_area(record) ==
    LET city == Upper(Get(record.Rndrng_Prvdr_City, Str(<<>>)).s)
    IN  \/ record.Rndrng_Prvdr_Zip5 \in atlanta_zips
        \/ Contains(ATLANTA, city)
        \/ Contains(DECATUR, city)
        \/ Contains(MARIETTA, city)
        \/ Contains(ROSWELL, city)
        \/ Contains(ALPHARETTA, city)

is_orthopedic(record) ==
    LET specialty == Get(record.Provider_Type, Str(<<>>)).s
    IN  \E ortho \in orthopedic_specialties :
            Contains(Upper(ortho), Upper(specialty))

\* variant: the try/except is inside the loop, a record whose classification
\* raises is skipped
RECURSIVE FilterRecords_SkipBad(_, _)
FilterRecords_SkipBad(records, all_records) ==
    IF records = <<>> THEN all_records
    ELSE IF ClassifyRaises(Head(records))
         THEN FilterRecords_SkipBad(Tail(records), all_records)
    ELSE IF is_atlanta_area(Head(records)) /\ is_orthopedic(Head(records))
         THEN FilterRecords_SkipBad(Tail(records),
                                    Append(all_records, Head(records)))
         ELSE FilterRecords_SkipBad(Tail(records), all_records)

\* the for loop over data['records']: an exception leaves the loop and the
\* except clause keeps the records appended so far
RECURSIVE FilterRecords(_, _)
FilterRecords(records, all_records) ==
    IF records = <<>> THEN all_records
    ELSE IF ClassifyRaises(Head(records)) THEN all_records
    ELSE IF is_atlanta_area(Head(records)) /\ is_orthopedic(Head(records))
         THEN FilterRecords(Tail(records), Append(all_records, Head(records)))
         ELSE FilterRecords(Tail(records), all_records)

\* A response of the remote source: kind "exception" is a timeout or
\* transport error raised by session.get, kind "http" carries a status code
\* and the decoded 'records' list.
\* variant: a year that is not configured falls back to a default dataset
HasResourceId_Fallback(year) == TRUE

HasResourceId(year) == year \in resource_ids

search_atlanta_orthopedic_physicians(year, response) ==
    IF ~HasResourceId(year) THEN <<>>
    ELSE IF response.kind = "exception" THEN <<>>
    ELSE IF response.status = 200 THEN FilterRecords(response.records, <<>>)
    ELSE <<>>

\* --------------------------------------------------------- the extractor
extract_physician_profile(record) ==
    [npi                   |-> record.Rndrng_NPI,
     street_address_1      |-> record.Rndrng_Prvdr_St1,
     city                  |-> Get(record.Rndrng_Prvdr_City, Str(<<>>)),
     zip_code              |-> record.Rndrng_Prvdr_Zip5,
     specialty_description |-> Get(record.Provider_Type, Str(<<>>))]

NumericFields == {"Tot_Srvcs", "Tot_Benes", "Avg_Sbmtd_Chrg",
                  "Avg_Mdcr_Alowd_Amt", "Avg_Mdcr_Pymt_Amt", "Avg_Mdcr_Stdzd_Amt"}

\* TRUE when one of the six conversions raises ValueError
ExtractRaises(record) ==
    \/ ~IntField(record.Tot_Srvcs).ok
    \/ ~IntField(record.Tot_Benes).ok
    \/ ~FloatField(record.Avg_Sbmtd_Chrg).ok
    \/ ~FloatField(record.Avg_Mdcr_Alowd_Amt).ok
    \/ ~FloatField(record.Avg_Mdcr_Pymt_Amt).ok
    \/ ~FloatField(record.Avg_Mdcr_Stdzd_Amt).ok

extract_procedure_data(record, year) ==
    [npi                               |-> record.Rndrng_NPI,
     year                              |-> year,
     hcpcs_code                        |-> record.HCPCS_Cd,
     line_service_count                |-> IntField(record.Tot_Srvcs).v,
     beneficiary_unique_count          |-> IntField(record.Tot_Benes).v,
     average_submitted_charge          |-> FloatField(record.Avg_Sbmtd_Chrg).v,
     average_medicare_allowed          |-> FloatField(record.Avg_Mdcr_Alowd_Amt).v,
     average_medicare_payment          |-> FloatField(record.Avg_Mdcr_Pymt_Amt).v,
     average_medicare_standard_payment |-> FloatField(record.Avg_Mdcr_Stdzd_Amt).v]

\* ------------------------------------------------------------- the inputs
Chars(w) ==
    CASE w = "Atlanta"   -> <<"A","t","l","a","n","t","a">>
      [] w = "ATLANTA"   -> ATLANTA
      [] w = "Boston"    -> <<"B","o","s","t","o","n">>
      [] w = "Ortho"     -> <<"O","r","t","h","o","p","e","d","i","c"," ",
                              "S","u","r","g","e","r","y">>
      [] w = "Cardio"    -> <<"C","a","r","d","i","o","l","o","g","y">>
      [] w = "abc"       -> <<"a","b","c">>
      [] w = "7"         -> <<"7">>
      [] w = "2.5"       -> <<"2",".","5">>
      [] OTHER           -> <<>>

Record(npi, st1, city, zip, ptype, hcpcs, srvcs, chrg) ==
    [Rndrng_NPI         |-> npi,
     Rndrng_Prvdr_St1   |-> st1,
     Rndrng_Prvdr_City  |-> city,
     Rndrng_Prvdr_Zip5  |-> zip,
     Provider_Type      |-> ptype,
     HCPCS_Cd           |-> hcpcs,
     Tot_Srvcs          |-> srvcs,
     Tot_Benes          |-> Missing,
     Avg_Sbmtd_Chrg     |-> chrg,
     Avg_Mdcr_Alowd_Amt |-> Missing,
     Avg_Mdcr_Pymt_Amt  |-> Missing,
     Avg_Mdcr_Stdzd_Amt |-> Missing]

InAtlanta == Str(Chars("Atlanta"))
Ortho     == Str(Chars("Ortho"))

\* The records the remote source may serve: a full record, the same
\* provider at another address, a record without procedure code, one without
\* NPI, one with a non-numeric service count, one outside the area, one whose
\* city is null.
RecFull     == Record("n1", "a1", InAtlanta, "30309", Ortho, "h1", Num(70),
                      Str(Chars("2.5")))
RecMoved    == Record("n1", "a2", Str(Chars("ATLANTA")), "99999", Ortho, "h1",
                      Missing, Missing)
RecNoCode   == Record("n2", "a1", InAtlanta, "30309", Ortho, "", Missing, Null)
RecNoNpi    == Record("", "a1", InAtlanta, "30309", Ortho, "h1", Missing,
                      Missing)
RecBadCount == Record("n2", "a2", InAtlanta, "30309", Ortho, "h1",
                      Str(Chars("abc")), Missing)
RecBoston   == Record("n2", "a1", Str(Chars("Boston")), "02108", Ortho, "h1",
                      Missing, Missing)
RecNullCity == Record("n2", "a1", Null, "30309", Ortho, "h1", Missing, Missing)

Records == {RecFull, RecMoved, RecNoCode, RecNoNpi, RecBadCount, RecBoston,
            RecNullCity}

SeqsUpTo(S, n) == UNION { [1..m -> S] : m \in 0..n }

\* the responses the remote source gives when it serves the records of served
ResponsesOf(served) ==
    { [kind |-> "exception", status |-> 0, records |-> <<>>],
      [kind |-> "http", status |-> 500, records |-> <<>>] }
    \cup { [kind |-> "http", status |-> 200, records |-> rs] :
              rs \in SeqsUpTo(served, MaxRecords) }

\* no request is issued for a year without resource id
NoResponse == [kind |-> "none", status |-> 0, records |-> <<>>]

ResponsesFor(year, served) ==
    IF HasResourceId(year) THEN ResponsesOf(served) ELSE {NoResponse}

Responses == ResponsesOf(Records) \cup {NoResponse}

\* at most one of the three writes of the try block fails: the first failure
\* ends the block
Faults ==
    { f \in [phys : 0..MaxRecords, proc : 0..MaxRecords,
             log : BOOLEAN, flog : BOOLEAN] :
        /\ f.phys # 0 => (f.proc = 0 /\ ~f.log)
        /\ f.proc # 0 => ~f.log }

\* the faults that can occur in a call that accepted records: a statement
\* fails only if the call executes it
FaultsOf(records, faults) ==
    { f \in faults :
        /\ f.phys <= Len(records)
        /\ f.proc <= Len(records)
        /\ (\E i \in 1..Len(records) : ExtractRaises(records[i]))
              => (f.phys = 0 /\ f.proc = 0 /\ ~f.log)
        /\ f.flog => \/ f.phys # 0 \/ f.proc # 0 \/ f.log
                      \/ \E i \in 1..Len(records) : ExtractRaises(records[i]) }

\* the first statement of save_physician_data fails, or none does
SaveFaults ==
    { f \in Faults : f.phys <= 1 /\ f.proc = 0 /\ ~f.log /\ ~f.flog }

\* as SaveFaults, or both log writes of the call fail
RunFaults ==
    { f \in Faults : f.phys <= 1 /\ f.proc = 0 /\ f.log = f.flog }

Years == {2022, 2021, 2017}

\* what became of the request: "none" (not issued), "failed" or "ok"
FetchOutcome(year, response) ==
    IF ~HasResourceId(year) THEN "none"
    ELSE IF response.kind = "exception" \/ response.status # 200 THEN "failed"
    ELSE "ok"

\* search_atlanta_orthopedic_physicians tabulated over the inputs
Search == [year \in Years, response \in Responses |->
              search_atlanta_orthopedic_physicians(year, response)]

\* -------------------------------------------------------------- the store
\* The three tables.  physicians is the set of its rows (npi is declared
\* PRIMARY KEY); procedure_data and collection_logs are the rows in id order.
\* A failing statement raises sqlite3.Error; the connection is then dropped
\* without commit, so the statements it executed before are rolled back.
NoError == "None"

\* variant: a plain INSERT into a table without the key constraint
InsertOrReplace_PlainInsert(table, physician) ==
    table \cup {physician}

\* INSERT OR REPLACE INTO physicians: rows in conflict on the key are deleted
InsertOrReplace(table, physician) ==
    {r \in table : r.npi # physician.npi} \cup {physician}

RECURSIVE ExecutePhysicians(_, _)
ExecutePhysicians(table, physicians) ==
    IF physicians = <<>> THEN table
    ELSE ExecutePhysicians(InsertOrReplace(table, Head(physicians)),
                           Tail(physicians))

\* variant: the connection is in autocommit mode, every statement that ran
\* before the failing one is kept
save_physician_data_Autocommit(table, physicians, failAt) ==
    IF physicians = <<>> THEN [ok |-> TRUE, table |-> table]
    ELSE IF failAt \in 1..Len(physicians)
         THEN [ok |-> FALSE,
               table |-> ExecutePhysicians(table,
                                           SubSeq(physicians, 1, failAt - 1))]
         ELSE [ok |-> TRUE, table |-> ExecutePhysicians(table, physicians)]

\* failAt = 0: no statement fails; failAt = i: the i-th execute raises
save_physician_data(table, physicians, failAt) ==
    IF physicians = <<>> THEN [ok |-> TRUE, table |-> table]
    ELSE IF failAt \in 1..Len(physicians)
         THEN [ok |-> FALSE, table |-> table]
         ELSE [ok |-> TRUE, table |-> ExecutePhysicians(table, physicians)]

\* id INTEGER PRIMARY KEY AUTOINCREMENT
NextId(rows) ==
    IF rows = <<>> THEN 1
    ELSE 1 + (CHOOSE m \in {rows[i].id : i \in 1..Len(rows)} :
                 \A i \in 1..Len(rows) : rows[i].id <= m)

\* variant: INSERT OR IGNORE under UNIQUE (npi, year, hcpcs_code)
InsertProcedure_IgnoreDuplicate(rows, procedure) ==
    IF \E i \in 1..Len(rows) : /\ rows[i].npi = procedure.npi
                               /\ rows[i].year = procedure.year
                               /\ rows[i].hcpcs_code = procedure.hcpcs_code
    THEN rows
    ELSE Append(rows, [id |-> NextId(rows)] @@ procedure)

\* INSERT INTO procedure_data: a new row under the next id
InsertProcedure(rows, procedure) ==
    Append(rows, [id |-> NextId(rows)] @@ procedure)

RECURSIVE ExecuteProcedures(_, _)
ExecuteProcedures(rows, procedures) ==
    IF procedures = <<>> THEN rows
    ELSE ExecuteProcedures(InsertProcedure(rows, Head(procedures)),
                           Tail(procedures))

save_procedure_data(rows, procedures, failAt) ==
    IF procedures = <<>> THEN [ok |-> TRUE, rows |-> rows]
    ELSE IF failAt \in 1..Len(procedures)
         THEN [ok |-> FALSE, rows |-> rows]
         ELSE [ok |-> TRUE, rows |-> ExecuteProcedures(rows, procedures)]

\* variant: the two counts are bound to each other's column
log_collection_run_Swapped(logs, year, status, records, physicians, error, fail) ==
    IF fail THEN [ok |-> FALSE, logs |-> logs]
    ELSE [ok |-> TRUE,
          logs |-> Append(logs, [id                |-> NextId(logs),
                                 year              |-> year,
                                 status            |-> status,
                                 records_collected |-> physicians,
                                 physicians_found  |-> records,
                                 error_message     |-> error])]

log_collection_run(logs, year, status, records, physicians, error, fail) ==
    IF fail THEN [ok |-> FALSE, logs |-> logs]
    ELSE [ok |-> TRUE,
          logs |-> Append(logs, [id                |-> NextId(logs),
                                 year              |-> year,
                                 status            |-> status,
                                 records_collected |-> records,
                                 physicians_found  |-> physicians,
                                 error_message     |-> error])]

\* ------------------------------------------------------ collect_year_data
\* variant: physicians_dict.setdefault(physician.npi, physician)
DictSet_KeepFirst(dict, physician) ==
    IF \E i \in 1..Len(dict) : dict[i].npi = physician.npi
    THEN dict
    ELSE Append(dict, physician)

\* physicians_dict[physician.npi] = physician, the dict kept as the sequence
\* of its values in key-insertion order
DictSet(dict, physician) ==
    IF \E i \in 1..Len(dict) : dict[i].npi = physician.npi
    THEN [i \in 1..Len(dict) |->
             IF dict[i].npi = physician.npi THEN physician ELSE dict[i]]
    ELSE Append(dict, physician)

\* variant: the test 'if physician.npi' is missing
RECURSIVE BuildPhysicians_NoKeyCheck(_, _)
BuildPhysicians_NoKeyCheck(records, dict) ==
    IF records = <<>> THEN dict
    ELSE BuildPhysicians_NoKeyCheck(Tail(records),
             DictSet(dict, extract_physician_profile(Head(records))))

RECURSIVE BuildPhysicians(_, _)
BuildPhysicians(records, dict) ==
    IF records = <<>> THEN dict
    ELSE LET physician == extract_physician_profile(Head(records))
         IN  BuildPhysicians(Tail(records),
                 IF physician.npi # "" THEN DictSet(dict, physician) ELSE dict)

\* variant: the test is 'if procedure.hcpcs_code' only
RECURSIVE BuildProcedures_NoKeyCheck(_, _, _)
BuildProcedures_NoKeyCheck(records, year, procedures) ==
    IF records = <<>> THEN procedures
    ELSE LET procedure == extract_procedure_data(Head(records), year)
         IN  BuildProcedures_NoKeyCheck(Tail(records), year,
                 IF procedure.hcpcs_code # ""
                 THEN Append(procedures, procedure) ELSE procedures)

\* variant: the test is 'if procedure.npi' only
RECURSIVE BuildProcedures_NoCodeCheck(_, _, _)
BuildProcedures_NoCodeCheck(records, year, procedures) ==
    IF records = <<>> THEN procedures
    ELSE LET procedure == extract_procedure_data(Head(records), year)
         IN  BuildProcedures_NoCodeCheck(Tail(records), year,
                 IF procedure.npi # ""
                 THEN Append(procedures, procedure) ELSE procedures)

RECURSIVE BuildProcedures(_, _, _)
BuildProcedures(records, year, procedures) ==
    IF records = <<>> THEN procedures
    ELSE LET procedure == extract_procedure_data(Head(records), year)
         IN  BuildProcedures(Tail(records), year,
                 IF procedure.npi # "" /\ procedure.hcpcs_code # ""
                 THEN Append(procedures, procedure) ELSE procedures)

ValueErrorMsg  == "ValueError: could not convert"
PhysiciansErr  == "sqlite3.Error: physicians"
ProceduresErr  == "sqlite3.Error: procedure_data"
LogsErr        == "sqlite3.Error: collection_logs"

\* what a call does, in order: the request (status: its outcome), the rows
\* written to collection_logs (p, r: the counts of the row)
Event(e, year, status, p, r) ==
    [e |-> e, year |-> year, status |-> status, p |-> p, r |-> r]

Returned(db, physicians, procedures, caught, events) ==
    [db |-> db, raised |-> FALSE, physicians |-> physicians,
     procedures |-> procedures, caught |-> caught, error |-> NoError,
     events |-> events]

\* variant: the except clause returns (0, 0) without writing the log
ExceptClause_NoLog(db, year, error_msg, fault, events) ==
    Returned(db, 0, 0, error_msg, events)

\* variant: the except clause logs FAILED without the error message
ExceptClause_NoDetail(db, year, error_msg, fault, events) ==
    LET logged == log_collection_run(db.collection_logs, year, "FAILED", 0, 0,
                                     NoError, fault.flog)
    IN  IF logged.ok
        THEN Returned([db EXCEPT !.collection_logs = logged.logs], 0, 0,
                      error_msg,
                      Append(events, Event("log", year, "FAILED", 0, 0)))
        ELSE [db |-> db, raised |-> TRUE, physicians |-> 0, procedures |-> 0,
              caught |-> error_msg, error |-> LogsErr, events |-> events]

\* the except clause of collect_year_data: log FAILED and return (0, 0); an
\* error of this log write leaves the method
ExceptClause(db, year, error_msg, fault, events) ==
    LET logged == log_collection_run(db.collection_logs, year, "FAILED", 0, 0,
                                     error_msg, fault.flog)
    IN  IF logged.ok
        THEN Returned([db EXCEPT !.collection_logs = logged.logs], 0, 0,
                      error_msg,
                      Append(events, Event("log", year, "FAILED", 0, 0)))
        ELSE [db |-> db, raised |-> TRUE, physicians |-> 0, procedures |-> 0,
              caught |-> error_msg, error |-> LogsErr, events |-> events]

\* variant: the return after the NO_DATA log is missing, so the call goes on
\* with the empty list and logs SUCCESS as well
NoDataBranch_FallThrough(db, year, fault, events0) ==
    LET logged == log_collection_run(db.collection_logs, year, "NO_DATA",
                                     0, 0, NoError, fault.log)
        again  == log_collection_run(logged.logs, year, "SUCCESS",
                                     0, 0, NoError, fault.log)
    IN  IF logged.ok
        THEN Returned([db EXCEPT !.collection_logs = again.logs], 0, 0,
                      NoError,
                      events0 \o << Event("log", year, "NO_DATA", 0, 0),
                                    Event("log", year, "SUCCESS", 0, 0) >>)
        ELSE ExceptClause(db, year, LogsErr, fault, events0)

\* if not records: log NO_DATA and return (0, 0)
NoDataBranch(db, year, fault, events0) ==
    LET logged == log_collection_run(db.collection_logs, year, "NO_DATA",
                                     0, 0, NoError, fault.log)
    IN  IF logged.ok
        THEN Returned([db EXCEPT !.collection_logs = logged.logs], 0, 0,
                      NoError,
                      Append(events0, Event("log", year, "NO_DATA", 0, 0)))
        ELSE ExceptClause(db, year, LogsErr, fault, events0)

\* fault = [phys, proc, log, flog]: the statement of save_physician_data and
\* of save_procedure_data that fails (0: none), whether the NO_DATA/SUCCESS
\* log write fails, whether the FAILED log write fails.
collect_year_data(db, year, response, fault) ==
    LET records == Search[year, response]
        events0 == IF HasResourceId(year)
                   THEN << Event("request", year,
                                 FetchOutcome(year, response), 0, 0) >>
                   ELSE << >>
    IN
    IF records = <<>> THEN NoDataBranch(db, year, fault, events0)
    ELSE IF \E i \in 1..Len(records) : ExtractRaises(records[i])
    THEN ExceptClause(db, year, ValueErrorMsg, fault, events0)
    ELSE
    LET physicians == BuildPhysicians(records, <<>>)
        procedures == BuildProcedures(records, year, <<>>)
        saved1     == save_physician_data(db.physicians, physicians, fault.phys)
        db1        == [db EXCEPT !.physicians = saved1.table]
        saved2     == save_procedure_data(db1.procedure_data, procedures,
                                          fault.proc)
        db2        == [db1 EXCEPT !.procedure_data = saved2.rows]
        logged     == log_collection_run(db2.collection_logs, year, "SUCCESS",
                                         Len(procedures), Len(physicians),
                                         NoError, fault.log)
    IN
    IF ~saved1.ok THEN ExceptClause(db, year, PhysiciansErr, fault, events0)
    ELSE IF ~saved2.ok THEN ExceptClause(db1, year, ProceduresErr, fault, events0)
    ELSE IF ~logged.ok THEN ExceptClause(db2, year, LogsErr, fault, events0)
    ELSE Returned([db2 EXCEPT !.collection_logs = logged.logs],
                  Len(physicians), Len(procedures), NoError,
                  Append(events0, Event("log", year, "SUCCESS",
                                        Len(physicians), Len(procedures))))

\* ------------------------------------------------------------- the state
VARIABLES
    physicians,       \* table physicians: set of rows
    procedure_data,   \* table procedure_data: rows in id order
    collection_logs,  \* table collection_logs: rows in id order
    run,              \* the activation of run_full_collection
    env,              \* the environment: the records the remote source
                      \* serves, the years callers ask for, the store
                      \* faults that can occur
    last,             \* the last completed call: its inputs and its outcome
    ncalls            \* calls made so far

vars == <<physicians, procedure_data, collection_logs, run, env, last,
         ncalls>>

Database == [physicians |-> physicians, procedure_data |-> procedure_data,
             collection_logs |-> collection_logs]

\* ---------------------------------------------------------------- actions
NoCall ==
    [op |-> "none", year |-> 0, fetch |-> "none", records |-> <<>>,
     batch |-> <<>>, ok |-> TRUE, raised |-> FALSE, physicians |-> 0,
     procedures |-> 0, caught |-> NoError, error |-> NoError]

\* a call of collect_year_data: records are the records the fetcher returned,
\* batch the records of the response it read
CallRecord(year, response, result) ==
    [op |-> "collect_year_data", year |-> year,
     fetch |-> FetchOutcome(year, response),
     records |-> Search[year, response],
     batch |-> IF FetchOutcome(year, response) = "ok" THEN response.records
               ELSE << >>,
     ok |-> ~result.raised, raised |-> result.raised,
     physicians |-> result.physicians, procedures |-> result.procedures,
     caught |-> result.caught, error |-> result.error]

Idle == run.pc # "loop"

InitOn(served, years, faults) ==
    /\ env = [served |-> served, years |-> years, faults |-> faults]
    /\ physicians = {}
    /\ procedure_data = <<>>
    /\ collection_logs = <<>>
    /\ run = [pc |-> "idle", years |-> <<>>, i |-> 1, results |-> <<>>,
              events |-> <<>>]
    /\ last = NoCall
    /\ ncalls = 0

\* variant: init_database drops the tables before it creates them
init_database_Recreate ==
    /\ Idle
    /\ ncalls < MaxCalls
    /\ ncalls' = ncalls + 1
    /\ last' = [NoCall EXCEPT !.op = "init_database"]
    /\ physicians' = {}
    /\ procedure_data' = << >>
    /\ collection_logs' = << >>
    /\ UNCHANGED <<run, env>>

\* CMSOrthopedicCollector(db_path) on an existing store: CREATE TABLE IF NOT
\* EXISTS leaves the three tables as they are
init_database ==
    /\ Idle
    /\ ncalls < MaxCalls
    /\ ncalls' = ncalls + 1
    /\ last' = [NoCall EXCEPT !.op = "init_database"]
    /\ UNCHANGED <<physicians, procedure_data, collection_logs, run, env>>

\* a direct call of save_physician_data
SavePhysicianData ==
    /\ Idle
    /\ ncalls < MaxCalls
    /\ \E batch \in SeqsUpTo({extract_physician_profile(r) : r \in env.served},
                           MaxRecords) :
       \E failAt \in {f.phys : f \in env.faults} \cap (0..Len(batch)) :
          LET saved == save_physician_data(physicians, batch, failAt)
          IN  /\ physicians' = saved.table
              /\ last' = [NoCall EXCEPT !.op = "save_physician_data",
                                        !.batch = batch, !.ok = saved.ok,
                                        !.raised = ~saved.ok,
                                        !.error = IF saved.ok THEN NoError
                                                  ELSE PhysiciansErr]
    /\ ncalls' = ncalls + 1
    /\ UNCHANGED <<procedure_data, collection_logs, run, env>>

\* a direct call of collect_year_data
CollectYearData ==
    /\ Idle
    /\ ncalls < MaxCalls
    /\ \E year \in env.years :
       \E response \in ResponsesFor(year, env.served) :
       \E fault \in FaultsOf(Search[year, response], env.faults) :
          LET result == collect_year_data(Database, year, response, fault)
          IN  /\ physicians' = result.db.physicians
              /\ procedure_data' = result.db.procedure_data
              /\ collection_logs' = result.db.collection_logs
              /\ last' = CallRecord(year, response, result)
    /\ ncalls' = ncalls + 1
    /\ UNCHANGED <<run, env>>

\* run_full_collection(years): entry
RunStart ==
    /\ Idle
    /\ ncalls < MaxCalls
    /\ \E years \in SeqsUpTo(env.years, MaxCalls - ncalls) :
          /\ run' = [pc |-> "loop", years |-> years, i |-> 1,
                     results |-> <<>>, events |-> <<>>]
    /\ last' = [NoCall EXCEPT !.op = "run_full_collection"]
    /\ UNCHANGED <<physicians, procedure_data, collection_logs, env, ncalls>>

\* results[year] = value
DictPut(results, year, value) ==
    [y \in DOMAIN results \cup {year} |->
        IF y = year THEN value ELSE results[y]]

\* variant: the except clause re-raises, which ends the loop
AfterCall_Abort(r, year, result) ==
    LET called == Append(r.events, Event("call", year, "", 0, 0))
    IN  IF ~result.raised
        THEN [r EXCEPT
                !.i = @ + 1,
                !.results = DictPut(@, year,
                                [physicians |-> result.physicians,
                                 procedures |-> result.procedures,
                                 error |-> NoError]),
                !.events = called \o result.events \o
                           << Event("sleep", year, "", 0, 0) >>]
        ELSE [r EXCEPT
                !.i = Len(r.years) + 1,
                !.events = called \o result.events]

\* variant: the except clause only logs, it leaves results as it is
AfterCall_NoEntry(r, year, result) ==
    LET called == Append(r.events, Event("call", year, "", 0, 0))
    IN  IF ~result.raised
        THEN [r EXCEPT
                !.i = @ + 1,
                !.results = DictPut(@, year,
                                [physicians |-> result.physicians,
                                 procedures |-> result.procedures,
                                 error |-> NoError]),
                !.events = called \o result.events \o
                           << Event("sleep", year, "", 0, 0) >>]
        ELSE [r EXCEPT
                !.i = @ + 1,
                !.events = called \o result.events]

\* the body of the for loop after collect_year_data(year) has ended: the rest
\* of the try block with time.sleep(2), or the except clause
AfterCall(r, year, result) ==
    LET called == Append(r.events, Event("call", year, "", 0, 0))
    IN  IF ~result.raised
        THEN [r EXCEPT
                !.i = @ + 1,
                !.results = DictPut(@, year,
                                [physicians |-> result.physicians,
                                 procedures |-> result.procedures,
                                 error |-> NoError]),
                !.events = called \o result.events \o
                           << Event("sleep", year, "", 0, 0) >>]
        ELSE [r EXCEPT
                !.i = @ + 1,
                !.results = DictPut(@, year,
                                [physicians |-> 0, procedures |-> 0,
                                 error |-> result.error]),
                !.events = called \o result.events]

\* one iteration of the for loop
RunIteration ==
    /\ run.pc = "loop"
    /\ run.i <= Len(run.years)
    /\ \E response \in ResponsesFor(run.years[run.i], env.served) :
       \E fault \in FaultsOf(Search[run.years[run.i], response], env.faults) :
          LET year   == run.years[run.i]
              result == collect_year_data(Database, year, response, fault)
          IN  /\ physicians' = result.db.physicians
              /\ procedure_data' = result.db.procedure_data
              /\ collection_logs' = result.db.collection_logs
              /\ last' = CallRecord(year, response, result)
              /\ run' = AfterCall(run, year, result)
    /\ ncalls' = ncalls + 1
    /\ UNCHANGED env

\* return results
RunReturn ==
    /\ run.pc = "loop"
    /\ run.i > Len(run.years)
    /\ run' = [run EXCEPT !.pc = "done"]
    /\ UNCHANGED <<physicians, procedure_data, collection_logs, env, last,
                   ncalls>>

\* direct calls on one collector
Next ==
    \/ init_database
    \/ SavePhysicianData
    \/ CollectYearData

\* one provider served at two addresses; one year without resource id; the
\* only store error is one of the physicians batch
Init == InitOn({RecFull, RecMoved}, {2022, 2017}, SaveFaults)

Spec == Init /\ [][Next]_vars

\* run_full_collection over two years with resource ids
NextRun ==
    \/ RunStart
    \/ RunIteration
    \/ RunReturn

\* one record; an iteration succeeds, has a store error caught inside
\* collect_year_data, or has one that leaves it
InitRun == InitOn({RecFull}, {2022, 2021}, RunFaults)

SpecRun == InitRun /\ [][NextRun]_vars

\* extract_procedure_data applied to one record
ExtractProcedureData ==
    /\ Idle
    /\ ncalls < MaxCalls
    /\ \E record \in env.served, year \in env.years :
          last' = [NoCall EXCEPT
                     !.op = "extract_procedure_data",
                     !.year = year,
                     !.records = << record >>,
                     !.ok = ~ExtractRaises(record),
                     !.raised = ExtractRaises(record),
                     !.error = IF ExtractRaises(record) THEN ValueErrorMsg
                               ELSE NoError,
                     !.batch = IF ExtractRaises(record) THEN << >>
                               ELSE << extract_procedure_data(record, year) >>]
    /\ ncalls' = ncalls + 1
    /\ UNCHANGED <<physicians, procedure_data, collection_logs, run, env>>

NextExtract == ExtractProcedureData

NoFaults == { [phys |-> 0, proc |-> 0, log |-> FALSE, flog |-> FALSE] }

\* what a numeric field of a record may hold: nothing, null, an empty or a
\* non-numeric string, a numeric string, a number
RawValues == {Missing, Null, Str(<<>>), Str(Chars("abc")), Str(Chars("7")),
              Num(70)}

NumericRecord(f) ==
    [Rndrng_NPI         |-> "n1",
     Rndrng_Prvdr_St1   |-> "a1",
     Rndrng_Prvdr_City  |-> InAtlanta,
     Rndrng_Prvdr_Zip5  |-> "30309",
     Provider_Type      |-> Ortho,
     HCPCS_Cd           |-> "h1",
     Tot_Srvcs          |-> f["Tot_Srvcs"],
     Tot_Benes          |-> f["Tot_Benes"],
     Avg_Sbmtd_Chrg     |-> f["Avg_Sbmtd_Chrg"],
     Avg_Mdcr_Alowd_Amt |-> f["Avg_Mdcr_Alowd_Amt"],
     Avg_Mdcr_Pymt_Amt  |-> f["Avg_Mdcr_Pymt_Amt"],
     Avg_Mdcr_Stdzd_Amt |-> f["Avg_Mdcr_Stdzd_Amt"]]

\* the extractor on one accepted record with any six numeric fields
InitExtract ==
    \E f \in [NumericFields -> RawValues] :
        InitOn({NumericRecord(f)}, {2022}, NoFaults)

SpecExtract == InitExtract /\ [][NextExtract]_vars

\* a record with a non-numeric count next to a full one; every store fault
InitErr == InitOn({RecFull, RecBadCount}, {2022, 2017}, Faults)

SpecErr == InitErr /\ [][Next]_vars

\* ------------------------------------------------------- the summary
\* the years of rows, largest first (ORDER BY year DESC)
RECURSIVE YearsDesc(_)
YearsDesc(S) ==
    IF S = {} THEN << >>
    ELSE LET m == CHOOSE y \in S : \A z \in S : z <= y
         IN  << m >> \o YearsDesc(S \ {m})

RowsOf(rows, year) == {i \in 1..Len(rows) : rows[i].year = year}

\* get_collection_summary: SELECT COUNT(DISTINCT npi) FROM physicians, and
\* per year COUNT(*) and COUNT(DISTINCT npi) of procedure_data, newest year
\* first.  (The procedure averages and the ten latest log rows are read by
\* two more SELECTs; they change nothing.)
get_collection_summary(db) ==
    LET rows  == db.procedure_data
        years == YearsDesc({rows[i].year : i \in 1..Len(rows)})
    IN  [total_physicians |-> Cardinality({r.npi : r \in db.physicians}),
         year_summary |->
            [j \in 1..Len(years) |->
                [year            |-> years[j],
                 procedure_count |-> Cardinality(RowsOf(rows, years[j])),
                 physician_count |->
                    Cardinality({rows[i].npi : i \in RowsOf(rows, years[j])})]]]

\* the procedure_count the summary reports for year (no row: the year is not
\* in year_summary)
ProcedureCount(summary, year) ==
    IF \E j \in 1..Len(summary.year_summary) :
          summary.year_summary[j].year = year
    THEN LET j == CHOOSE j \in 1..Len(summary.year_summary) :
                     summary.year_summary[j].year = year
         IN  summary.year_summary[j].procedure_count
    ELSE 0

\* CMSDataAnalyzer.get_physician_summary: physicians LEFT JOIN procedure_data
\* ON npi, one line per physician with COUNT(pd.id)
get_physician_summary(db) ==
    { [npi |-> r.npi,
       total_procedures |->
          Cardinality({i \in 1..Len(db.procedure_data) :
                          db.procedure_data[i].npi = r.npi})] :
      r \in db.physicians }

\* CMSDataAnalyzer.get_price_trends(procedure_code): per year COUNT(*) of the
\* rows with that code
get_price_trends(db, procedure_code) ==
    LET rows == db.procedure_data
        hit  == {i \in 1..Len(rows) : rows[i].hcpcs_code = procedure_code}
    IN  { [year |-> y,
           procedure_count |-> Cardinality({i \in hit : rows[i].year = y})] :
          y \in {rows[i].year : i \in hit} }

\* a call of get_collection_summary: it reads the three tables
GetCollectionSummary ==
    /\ Idle
    /\ ncalls < MaxCalls
    /\ last' = [NoCall EXCEPT !.op = "get_collection_summary",
                              !.batch = << get_collection_summary(Database) >>]
    /\ ncalls' = ncalls + 1
    /\ UNCHANGED <<physicians, procedure_data, collection_logs, run, env>>

\* a call of one of the analysis queries: they read physicians and
\* procedure_data
Analyze ==
    /\ Idle
    /\ ncalls < MaxCalls
    /\ \/ last' = [NoCall EXCEPT !.op = "get_physician_summary",
                                 !.batch = << get_physician_summary(Database) >>]
       \/ last' = [NoCall EXCEPT !.op = "get_price_trends",
                                 !.batch = << get_price_trends(Database, "h1") >>]
    /\ ncalls' = ncalls + 1
    /\ UNCHANGED <<physicians, procedure_data, collection_logs, run, env>>

\* collect_year_data and the summary on records with two provider keys, one
\* without procedure code and one without provider key; no store fault
NextSum ==
    \/ CollectYearData
    \/ GetCollectionSummary

InitSum == InitOn({RecFull, RecNoCode, RecNoNpi}, {2022, 2021}, NoFaults)

SpecSum == InitSum /\ [][NextSum]_vars

\* the same records in one year; the only store error is one of the
\* physicians batch
InitKeys == InitOn({RecFull, RecNoCode, RecNoNpi}, {2022}, SaveFaults)

SpecKeys == InitKeys /\ [][NextSum]_vars

\* ------------------------------------------------------ the classifier
AttributeErrorMsg == "AttributeError: 'NoneType' object has no attribute 'upper'"

\* the body of the for loop of search_atlanta_orthopedic_physicians applied
\* to one record of a response: the record is appended to all_records, or
\* skipped, or its classification raises
ClassifyRecord ==
    /\ Idle
    /\ ncalls < MaxCalls
    /\ \E record \in env.served :
          last' = [NoCall EXCEPT
                     !.op = "classify",
                     !.records = << record >>,
                     !.batch = FilterRecords(<< record >>, << >>),
                     !.ok = ~ClassifyRaises(record),
                     !.raised = ClassifyRaises(record),
                     !.error = IF ClassifyRaises(record)
                               THEN AttributeErrorMsg ELSE NoError]
    /\ ncalls' = ncalls + 1
    /\ UNCHANGED <<physicians, procedure_data, collection_logs, run, env>>

NextClassify == ClassifyRecord

\* cities, postal codes and provider types of raw records: allow-listed
\* cities in three spellings, a city that only contains an allow-listed name,
\* other cities, an empty, an absent and a null city
Cities ==
    { Str(Chars("Atlanta")), Str(ATLANTA),
      Str(<<"a","t","l","a","n","t","a">>),
      Str(<<"R","o","s","w","e","l","l">>),
      Str(<<"E","a","s","t"," ","A","t","l","a","n","t","a">>),
      Str(Chars("Boston")), Str(<<>>), Missing, Null }

Zips == {"30309", "30398", "99999", ""}

ProviderTypes ==
    { Ortho, Str(Chars("Cardio")),
      Str(<<"h","a","n","d"," ","s","u","r","g","e","r","y">>),
      Str(<<"P","e","d","i","a","t","r","i","c"," ","S","p","o","r","t","s",
            " ","M","e","d","i","c","i","n","e">>),
      Str(<<>>), Missing, Null }

\* the classifier on one record with any of these cities, codes and types
InitClassify ==
    \E city \in Cities, zip \in Zips, ptype \in ProviderTypes :
        InitOn({Record("n1", "a1", city, zip, ptype, "h1", Missing, Missing)},
               {2022}, NoFaults)

SpecClassify == InitClassify /\ [][NextClassify]_vars

\* ------------------------------------------------- every entry point
\* the entry points of the collector and of the analyzer on one store
NextAll ==
    \/ init_database
    \/ CollectYearData
    \/ RunStart
    \/ RunIteration
    \/ RunReturn
    \/ GetCollectionSummary
    \/ Analyze

\* two providers, one year; the only store error is one of the physicians
\* batch
InitAll == InitOn({RecFull, RecNoCode}, {2022}, SaveFaults)

SpecAll == InitAll /\ [][NextAll]_vars

\* collect_year_data, directly and from run_full_collection, on a record with
\* and a record without provider key
NextRef ==
    \/ CollectYearData
    \/ RunStart
    \/ RunIteration
    \/ RunReturn

\* the first statement of one of the two batches fails, or none does
FirstFaults ==
    { f \in Faults : f.phys <= 1 /\ f.proc <= 1 /\ ~f.log /\ ~f.flog }

InitRef == InitOn({RecFull, RecNoNpi}, {2022}, FirstFaults)

SpecRef == InitRef /\ [][NextRef]_vars

\* collect_year_data for two years on responses that hold an accepted record,
\* a record outside the area and a record whose city is null; no store fault
NextPrefix == CollectYearData

InitPrefix == InitOn({RecFull, RecBoston, RecNullCity}, {2022, 2021}, NoFaults)

SpecPrefix == InitPrefix /\ [][NextPrefix]_vars

\* ------------------------------------------------ vocabulary of the claims
IsCollect(l) == l.op = "collect_year_data"
IsSave(l)    == l.op = "save_physician_data"

\* the step appended exactly one row to collection_logs
AppendedOneLog ==
    /\ Len(collection_logs') = Len(collection_logs) + 1
    /\ SubSeq(collection_logs', 1, Len(collection_logs)) = collection_logs

NewLog == collection_logs'[Len(collection_logs')]

LastLog == collection_logs[Len(collection_logs)]

\* the call l committed an upsert into physicians
Upserted(l) ==
    \/ IsSave(l) /\ l.ok
    \/ IsCollect(l) /\ l.records # <<>>
                    /\ l.caught \in {NoError, ProceduresErr, LogsErr}

\* the providers the call l presented to the store, in order
ProfilesOf(l) ==
    IF IsSave(l) THEN l.batch
    ELSE [i \in 1..Len(l.records) |-> extract_physician_profile(l.records[i])]

KeysOf(l) ==
    {ProfilesOf(l)[i].npi : i \in 1..Len(ProfilesOf(l))}
        \ (IF IsCollect(l) THEN {""} ELSE {})

LastFor(l, k) ==
    LET ps == ProfilesOf(l)
        i  == CHOOSE i \in 1..Len(ps) :
                 ps[i].npi = k /\ \A j \in (i+1)..Len(ps) : ps[j].npi # k
    IN  ps[i]

\* the index of the last record of rs with provider key k
LastIndex(rs, k) ==
    CHOOSE i \in 1..Len(rs) :
        rs[i].Rndrng_NPI = k /\ \A j \in (i+1)..Len(rs) : rs[j].Rndrng_NPI # k

\* ---------------------------------------------------------------- claims

\* C1: after any sequence of save_physician_data and collect_year_data calls
\* the physicians table has at most one row per npi, and a committed upsert
\* leaves, for every key it carries, exactly the row of its last value for
\* that key; rows of other keys, and the table in every step that commits no
\* upsert, stay as they were (so a row always carries the values of the most
\* recent upsert of its key).
C1_LastWriteWins ==
    [][ /\ \A r1, r2 \in physicians' : r1.npi = r2.npi => r1 = r2
        /\ IF Upserted(last')
           THEN /\ \A k \in KeysOf(last') :
                      {r \in physicians' : r.npi = k} = {LastFor(last', k)}
                /\ \A r \in physicians \cup physicians' :
                      r.npi \notin KeysOf(last')
                          => (r \in physicians <=> r \in physicians')
           ELSE physicians' = physicians ]_vars

\* the first call collected the provider at address a1, the second call
\* upserted the same key with address a2: one row, with a2
C1_Witness ==
    /\ ncalls = 2
    /\ Len(collection_logs) = 1 /\ collection_logs[1].status = "SUCCESS"
    /\ Len(procedure_data) = 1 /\ procedure_data[1].line_service_count = 7
    /\ IsSave(last) /\ last.ok
    /\ last.batch = << extract_physician_profile(RecMoved) >>
    /\ physicians = { extract_physician_profile(RecMoved) }

\* C2: a failed request (exception or status other than 200) makes
\* collect_year_data append a FAILED row with the error detail and return
\* (0, 0).  Stated for calls in which no store write fails.
C2_FetchFailureLoggedFailed ==
    [][ (IsCollect(last') /\ last'.fetch = "failed"
            /\ last'.caught = NoError /\ ~last'.raised)
        => /\ AppendedOneLog
           /\ NewLog.status = "FAILED"
           /\ NewLog.error_message # NoError
           /\ last'.physicians = 0 /\ last'.procedures = 0 ]_vars

\* C3: a call of collect_year_data that returns normally appends exactly one
\* row to collection_logs, with status SUCCESS, NO_DATA or FAILED and the
\* call's year, whatever happened to the request, the extraction and the store
\* writes.
C3_OneLogRowPerCall ==
    [][ (IsCollect(last') /\ ~last'.raised)
        => /\ AppendedOneLog
           /\ NewLog.status \in {"SUCCESS", "NO_DATA", "FAILED"}
           /\ NewLog.year = last'.year ]_vars

\* a second call whose service-line write failed returned with its one row
C3_Witness ==
    /\ ncalls = 2
    /\ IsCollect(last) /\ ~last.raised /\ last.caught = ProceduresErr
    /\ Len(collection_logs) = 2
    /\ collection_logs[1].status = "SUCCESS"
    /\ collection_logs[2].status = "FAILED"

\* C5: when an error raised after the fetch (extraction, save_physician_data,
\* save_procedure_data, the NO_DATA or SUCCESS log write) is caught and the call
\* returns, the call has appended one FAILED row carrying the error message
\* and zero counts and returns (0, 0); what was committed before the error
\* stays: the providers if the error came after save_physician_data, the
\* service lines too if it came after save_procedure_data.
C5_ErrorAfterFetch ==
    [][ (IsCollect(last') /\ last'.caught # NoError /\ ~last'.raised)
        => LET rs        == last'.records
               afterPhys == rs # <<>> /\ last'.caught \in {ProceduresErr, LogsErr}
               afterProc == rs # <<>> /\ last'.caught = LogsErr
               lines     == {i \in 1..Len(rs) : rs[i].Rndrng_NPI # ""
                                                /\ rs[i].HCPCS_Cd # ""}
           IN  /\ AppendedOneLog
               /\ NewLog.status = "FAILED"
               /\ NewLog.error_message = last'.caught
               /\ NewLog.records_collected = 0
               /\ NewLog.physicians_found = 0
               /\ last'.physicians = 0 /\ last'.procedures = 0
               /\ IF afterPhys
                  THEN \A i \in 1..Len(rs) : rs[i].Rndrng_NPI # "" =>
                          \E r \in physicians' :
                             /\ r.npi = rs[i].Rndrng_NPI
                             /\ r.street_address_1 =
                                  rs[LastIndex(rs, r.npi)].Rndrng_Prvdr_St1
                  ELSE physicians' = physicians
               /\ IF afterProc
                  THEN /\ Len(procedure_data')
                            = Len(procedure_data) + Cardinality(lines)
                       /\ SubSeq(procedure_data', 1, Len(procedure_data))
                            = procedure_data
                  ELSE procedure_data' = procedure_data ]_vars

\* save_procedure_data failed after save_physician_data had committed: the
\* FAILED row is written and the provider row is in the store
C5_Witness ==
    /\ ncalls = 1
    /\ IsCollect(last) /\ ~last.raised /\ last.caught = ProceduresErr
    /\ last.records = << RecFull >>
    /\ physicians = { extract_physician_profile(RecFull) }
    /\ procedure_data = << >>
    /\ Len(collection_logs) = 1
    /\ LastLog.status = "FAILED" /\ LastLog.error_message = ProceduresErr

\* C8: within one collect_year_data call whose upsert commits, records that
\* share a provider key leave exactly one row for that key, with the address,
\* city and ZIP of the record that comes last in the response.
C8_DedupWithinPeriod ==
    [][ (IsCollect(last') /\ Upserted(last'))
        => LET rs == last'.records
           IN  \A i \in 1..Len(rs) :
                  LET k    == rs[i].Rndrng_NPI
                      rows == {r \in physicians' : r.npi = k}
                      rec  == rs[LastIndex(rs, k)]
                  IN  k # "" =>
                        /\ Cardinality(rows) = 1
                        /\ \A r \in rows :
                              /\ r.street_address_1 = rec.Rndrng_Prvdr_St1
                              /\ r.city = rec.Rndrng_Prvdr_City
                              /\ r.zip_code = rec.Rndrng_Prvdr_Zip5 ]_vars

\* one response carried the provider at a1 and then at a2
C8_Witness ==
    /\ IsCollect(last) /\ ~last.raised /\ last.caught = NoError
    /\ last.records = << RecFull, RecMoved >>
    /\ Cardinality(physicians) = 1
    /\ \A r \in physicians : r.npi = "n1" /\ r.street_address_1 = "a2"

\* C9: a request that succeeds with no accepted record leaves physicians and
\* procedure_data unchanged, and (when the NO_DATA log write does not fail)
\* the call appends one NO_DATA row with zero counts and returns (0, 0).
C9_NoDataPath ==
    [][ (IsCollect(last') /\ last'.fetch = "ok" /\ last'.records = << >>)
        => /\ physicians' = physicians
           /\ procedure_data' = procedure_data
           /\ last'.caught = NoError =>
                /\ AppendedOneLog
                /\ NewLog.status = "NO_DATA"
                /\ NewLog.year = last'.year
                /\ NewLog.records_collected = 0
                /\ NewLog.physicians_found = 0
                /\ NewLog.error_message = NoError
                /\ ~last'.raised
                /\ last'.physicians = 0 /\ last'.procedures = 0 ]_vars

\* an empty response met a store that already held rows
C9_Witness ==
    /\ IsCollect(last) /\ last.fetch = "ok" /\ last.records = << >>
    /\ last.caught = NoError /\ ~last.raised
    /\ physicians # {} /\ procedure_data # << >>
    /\ Len(collection_logs) = 2 /\ LastLog.status = "NO_DATA"

\* --------------------------------------------- claims on run_full_collection
IsCall(ev)    == ev.e = "call"

\* the index in events of the last call of collect_year_data for year
LastCallOf(events, year) ==
    CHOOSE c \in 1..Len(events) :
        /\ IsCall(events[c]) /\ events[c].year = year
        /\ \A d \in (c+1)..Len(events) :
              ~(IsCall(events[d]) /\ events[d].year = year)

\* the positions of events that belong to the call at position c
SegmentOf(events, c) ==
    {q \in (c+1)..Len(events) :
        \A d \in (c+1)..q : ~IsCall(events[d])}

\* C4: in a run over <<A, B>> where the request for A fails and the request
\* for B succeeds with accepted records (and B's store writes succeed), the
\* result has a FAILED entry for A (a FAILED log row or an error string), a
\* populated entry for B, and B's accepted records with non-empty keys are in
\* physicians and procedure_data.
C4_FailureIsolation ==
    (/\ Len(run.years) = 2 /\ run.i = 3
     /\ run.years[1] # run.years[2]
     /\ \E q \in 1..Len(run.events) :
           /\ run.events[q].e = "request" /\ run.events[q].status = "failed"
           /\ run.events[q].year = run.years[1]
     /\ last.year = run.years[2] /\ last.fetch = "ok" /\ last.records # << >>
     /\ last.caught = NoError /\ ~last.raised)
    => LET A == run.years[1]
           B == run.years[2]
           segA == SegmentOf(run.events, LastCallOf(run.events, A))
       IN  /\ \/ run.results[A].error # NoError
              \/ \E q \in segA : /\ run.events[q].e = "log"
                                 /\ run.events[q].status = "FAILED"
           /\ run.results[B].error = NoError
           /\ run.results[B].physicians > 0
           /\ \A i \in 1..Len(last.records) :
                 LET rec == last.records[i]
                 IN  /\ rec.Rndrng_NPI # "" =>
                          \E r \in physicians : r.npi = rec.Rndrng_NPI
                     /\ (rec.Rndrng_NPI # "" /\ rec.HCPCS_Cd # "") =>
                          \E j \in 1..Len(procedure_data) :
                             /\ procedure_data[j].npi = rec.Rndrng_NPI
                             /\ procedure_data[j].hcpcs_code = rec.HCPCS_Cd
                             /\ procedure_data[j].year = B

\* C6: run_full_collection calls collect_year_data once for every year of the
\* list, in list order and one at a time: the calls made so far are the first
\* i-1 years of the list, every request and log write belongs to the call that
\* precedes it (so no request of a later year comes before the log row of an
\* earlier one), and the loop is left only after the last year, whatever the
\* earlier calls returned or raised.
C6_EveryPeriodInOrder ==
    LET calls == SelectSeq(run.events, IsCall)
    IN  /\ Len(calls) = run.i - 1
        /\ \A j \in 1..Len(calls) : calls[j].year = run.years[j]
        /\ run.pc = "done" => Len(calls) = Len(run.years)
        /\ \A q \in 1..Len(run.events) :
              run.events[q].e \in {"request", "log", "sleep"} =>
                 \E c \in 1..(q-1) :
                    /\ IsCall(run.events[c])
                    /\ q \in SegmentOf(run.events, c)
                    /\ run.events[c].year = run.events[q].year
        /\ \A q1, q2 \in 1..Len(run.events) :
              (/\ q1 < q2
               /\ run.events[q1].e = "log"
               /\ run.events[q2].e = "request")
              => \E c \in (q1+1)..(q2-1) : IsCall(run.events[c])

\* the first call raised out of collect_year_data and the second year was
\* still collected
C6_Witness ==
    /\ run.pc = "done" /\ Len(run.years) = 2
    /\ run.years[1] # run.years[2]
    /\ run.results[run.years[1]].error # NoError
    /\ run.results[run.years[2]].physicians = 1
    /\ Len(SelectSeq(run.events, IsCall)) = 2

\* C7: the map returned by run_full_collection has an entry for every year of
\* the list and for no other year; the entry of a year holds the counts that
\* the last call for that year returned (those of the log row it wrote), or,
\* when that call raised, zero counts and the error string.
C7_EntryPerPeriod ==
    run.pc = "done" =>
       /\ DOMAIN run.results = {run.years[j] : j \in 1..Len(run.years)}
       /\ \A y \in DOMAIN run.results :
             LET entry == run.results[y]
                 seg   == SegmentOf(run.events, LastCallOf(run.events, y))
                 logs  == {q \in seg : run.events[q].e = "log"}
             IN  \/ /\ entry.error = NoError
                    /\ Cardinality(logs) = 1
                    /\ \A q \in logs :
                          /\ run.events[q].p = entry.physicians
                          /\ run.events[q].r = entry.procedures
                 \/ /\ entry.error # NoError
                    /\ logs = {}
                    /\ entry.physicians = 0 /\ entry.procedures = 0

\* a list that names one year twice: the first call raised, the second
\* collected one provider
C7_Witness ==
    /\ run.pc = "done" /\ Len(run.years) = 2
    /\ run.years[1] = run.years[2]
    /\ Cardinality(DOMAIN run.results) = 1
    /\ run.results[run.years[1]].physicians = 1
    /\ Len(collection_logs) = 1

\* ------------------------------------------------- claims on the extractor
\* the value a numeric field stands for, in tenths; 0 when it is not numeric
NumericValue(raw) ==
    CASE raw.k = "num"           -> raw.n
      [] raw = Str(Chars("7"))   -> 70
      [] OTHER                   -> 0

\* C10: extract_procedure_data never raises, and each of the six numeric
\* fields of the ProcedureData is the source value when that is numeric and
\* zero when it is missing, null or non-numeric.
C10_NumericCoercion ==
    last.op = "extract_procedure_data" =>
       /\ ~last.raised
       /\ Len(last.batch) = 1
       /\ LET rec == last.records[1]
              out == last.batch[1]
          IN  /\ 10 * out.line_service_count = NumericValue(rec.Tot_Srvcs)
              /\ 10 * out.beneficiary_unique_count = NumericValue(rec.Tot_Benes)
              /\ out.average_submitted_charge = NumericValue(rec.Avg_Sbmtd_Chrg)
              /\ out.average_medicare_allowed
                    = NumericValue(rec.Avg_Mdcr_Alowd_Amt)
              /\ out.average_medicare_payment
                    = NumericValue(rec.Avg_Mdcr_Pymt_Amt)
              /\ out.average_medicare_standard_payment
                    = NumericValue(rec.Avg_Mdcr_Stdzd_Amt)

\* ------------------------------------------------- claims on the summary
\* C11: across a collect_year_data call whose accepted records carry P
\* distinct provider keys (non-empty values of Rndrng_NPI), total_physicians
\* of the summary grows by at most P; it grows by exactly P when the physicians
\* table was empty before the call and the call committed its upsert.
C11_TotalProvidersGrowth ==
    [][ IsCollect(last')
        => LET P      == Cardinality(KeysOf(last'))
               before == get_collection_summary(Database).total_physicians
               after  == get_collection_summary(Database').total_physicians
           IN  /\ after >= before
               /\ after - before <= P
               /\ (physicians = {} /\ Upserted(last'))
                     => after - before = P ]_vars

\* a first call accepted two providers, a second call one of them again and
\* a record without key: the total is 2 and stays 2
C11_Witness ==
    /\ ncalls = 2
    /\ IsCollect(last) /\ last.records = << RecNoNpi, RecFull >>
    /\ Len(collection_logs) = 2
    /\ collection_logs[1].physicians_found = 2
    /\ collection_logs[2].physicians_found = 1
    /\ get_collection_summary(Database).total_physicians = 2

\* the accepted records of the call l that have a provider key and a
\* procedure code
LinesOf(l) ==
    {i \in 1..Len(l.records) :
        l.records[i].Rndrng_NPI # "" /\ l.records[i].HCPCS_Cd # ""}

\* the call l committed its service lines
Appended(l) ==
    IsCollect(l) /\ l.records # << >> /\ l.caught \in {NoError, LogsErr}

\* C12 as stated: after a collect_year_data call that logs SUCCESS, the
\* procedure_count the summary reports for the call's year equals the number
\* of accepted records with non-empty provider key and procedure code.
C12_CountEqualsLines ==
    [][ (IsCollect(last') /\ last'.records # << >>
            /\ last'.caught = NoError)
        => ProcedureCount(get_collection_summary(Database'), last'.year)
              = Cardinality(LinesOf(last')) ]_vars

\* C12 amended: the procedure_count of the call's year grows by the number of
\* accepted records with non-empty provider key and procedure code when the
\* call commits its service lines, and is unchanged when it does not; the
\* counts of the other years are unchanged.  (So the count equals that number
\* when no service line of the year was stored before the call.)
C12_CountGrowsByLines ==
    [][ IsCollect(last')
        => LET before == get_collection_summary(Database)
               after  == get_collection_summary(Database')
           IN  /\ ProcedureCount(after, last'.year)
                    = ProcedureCount(before, last'.year)
                      + (IF Appended(last')
                         THEN Cardinality(LinesOf(last')) ELSE 0)
               /\ \A y \in Years \ {last'.year} :
                     ProcedureCount(after, y) = ProcedureCount(before, y) ]_vars

\* 2021 was collected with one service line, then 2022 with two accepted
\* records of which one has no procedure code: 2022 counts 1, 2021 still 1
C12_Witness ==
    /\ ncalls = 2
    /\ IsCollect(last) /\ last.year = 2022 /\ last.caught = NoError
    /\ last.records = << RecNoCode, RecFull >>
    /\ Len(get_collection_summary(Database).year_summary) = 2
    /\ get_collection_summary(Database).year_summary[1].year = 2022
    /\ ProcedureCount(get_collection_summary(Database), 2022) = 1
    /\ ProcedureCount(get_collection_summary(Database), 2021) = 1

\* a row of procedure_data without its id
Unnumbered(row) == [f \in DOMAIN row \ {"id"} |-> row[f]]

\* C13: when collect_year_data runs twice in a row for the same year on the
\* same accepted records (the store writes succeeding both times), the second
\* run appends the same service lines once more, each under an id no earlier
\* row has, and leaves the earlier rows as they are; the number of physicians
\* rows is the same after the second run as after the first.
C13_LinesDuplicated ==
    [][ (/\ IsCollect(last) /\ IsCollect(last')
         /\ last'.year = last.year /\ last'.records = last.records
         /\ last.records # << >>
         /\ last.caught = NoError /\ last'.caught = NoError)
        => LET n   == Cardinality(LinesOf(last'))
               old == Len(procedure_data)
           IN  /\ old >= n
               /\ Len(procedure_data') = old + n
               /\ SubSeq(procedure_data', 1, old) = procedure_data
               /\ \A j \in 1..n :
                     /\ Unnumbered(procedure_data'[old + j])
                          = Unnumbered(procedure_data[old - n + j])
                     /\ \A i \in 1..(old + j - 1) :
                           procedure_data'[i].id # procedure_data'[old + j].id
               /\ Cardinality(physicians') = Cardinality(physicians) ]_vars

\* 2022 was collected twice with the same two accepted records: two rows for
\* the one record that has a procedure code, two providers
C13_Witness ==
    /\ ncalls = 2
    /\ IsCollect(last) /\ last.caught = NoError
    /\ last.records = << RecFull, RecNoCode >>
    /\ Len(collection_logs) = 2
    /\ collection_logs[1].year = 2022 /\ collection_logs[2].year = 2022
    /\ collection_logs[1].records_collected = 1
    /\ Len(procedure_data) = 2
    /\ procedure_data[1].id = 1 /\ procedure_data[2].id = 2
    /\ Unnumbered(procedure_data[1]) = Unnumbered(procedure_data[2])
    /\ Cardinality(physicians) = 2

\* ------------------------------------------------ claims on the classifier
\* a string field of a raw record as text: empty when absent or null
TextOf(v) == IF v.k = "str" THEN v.s ELSE << >>

\* C14: a raw record is accepted if and only if (a) its postal code is in the
\* allow-list or its city, upper-cased, is one of the five allow-listed city
\* names, and (b) its provider type, upper-cased, contains one of the
\* allow-listed specialty names, upper-cased.
C14_ClassifierIff ==
    last.op = "classify" =>
       LET record == last.records[1]
           city   == Upper(TextOf(record.Rndrng_Prvdr_City))
           ptype  == Upper(TextOf(record.Provider_Type))
           a      == \/ record.Rndrng_Prvdr_Zip5 \in atlanta_zips
                     \/ city \in {ATLANTA, DECATUR, MARIETTA, ROSWELL,
                                  ALPHARETTA}
           b      == \E ortho \in orthopedic_specialties :
                         Contains(Upper(ortho), ptype)
       IN  (last.batch = << record >>) <=> (a /\ b)

\* ------------------------------------------------------ claims on the pause
\* C15: in run_full_collection, between the calls of collect_year_data for
\* two consecutive years there is a time.sleep: after the first call has
\* ended (returned or raised) and before the second call, and so before its
\* request.
C15_PauseBetweenPeriods ==
    \A c1, c2 \in 1..Len(run.events) :
       (/\ c1 < c2
        /\ IsCall(run.events[c1]) /\ IsCall(run.events[c2])
        /\ \A d \in (c1+1)..(c2-1) : ~IsCall(run.events[d]))
       => \E q \in (c1+1)..(c2-1) : run.events[q].e = "sleep"

\* ------------------------------------------------ claims on the log counts
\* C16: when a collect_year_data call appends a SUCCESS row, the row's
\* records_collected is the number of rows the call appended to
\* procedure_data, its physicians_found is the number of distinct non-empty
\* provider keys of the call's accepted records, all of them now in
\* physicians, and the call returns (physicians_found, records_collected).
C16_SuccessCounts ==
    [][ (IsCollect(last') /\ AppendedOneLog /\ NewLog.status = "SUCCESS")
        => /\ NewLog.records_collected
                = Len(procedure_data') - Len(procedure_data)
           /\ NewLog.physicians_found = Cardinality(KeysOf(last'))
           /\ \A k \in KeysOf(last') : \E r \in physicians' : r.npi = k
           /\ ~last'.raised
           /\ last'.physicians = NewLog.physicians_found
           /\ last'.procedures = NewLog.records_collected ]_vars

\* a call with two providers, one of them without procedure code, logged
\* SUCCESS with 1 record and 2 providers and returned (2, 1)
C16_Witness ==
    /\ IsCollect(last) /\ last.records = << RecNoCode, RecFull >>
    /\ LastLog.status = "SUCCESS"
    /\ LastLog.records_collected = 1 /\ LastLog.physicians_found = 2
    /\ last.physicians = 2 /\ last.procedures = 1
    /\ Len(procedure_data) = 1 /\ Cardinality(physicians) = 2

\* ------------------------------------------------------ claims on the store
\* C17: no step of init_database, collect_year_data, run_full_collection,
\* get_collection_summary or the analysis queries removes a provider key from
\* physicians, and every row of collection_logs stays where it is with its
\* year, status, counts and error message.
C17_NothingDeleted ==
    [][ /\ {r.npi : r \in physicians} \subseteq {r.npi : r \in physicians'}
        /\ Len(collection_logs') >= Len(collection_logs)
        /\ SubSeq(collection_logs', 1, Len(collection_logs))
              = collection_logs ]_vars

\* provider n1 and its log row were written by a first call; a second call
\* that collected only provider n2 left both in place
C17_Witness ==
    /\ ncalls = 2
    /\ IsCollect(last) /\ last.records = << RecNoCode >>
    /\ last.caught = NoError
    /\ {r.npi : r \in physicians} = {"n1", "n2"}
    /\ Len(collection_logs) = 2
    /\ collection_logs[1].physicians_found = 1
    /\ collection_logs[1].records_collected = 1
    /\ collection_logs[2].records_collected = 0

\* C18: in every state reached from the empty store by calls of
\* collect_year_data, direct or from run_full_collection, whether their store
\* writes succeed or fail, the npi of every procedure_data row is the npi of a
\* physicians row.
C18_ReferentialIntegrity ==
    \A i \in 1..Len(procedure_data) :
       \E r \in physicians : r.npi = procedure_data[i].npi

\* a first call failed in save_physician_data and stored nothing; a second
\* call accepted a record without provider key and a full one and stored the
\* one service line together with its provider
C18_Witness ==
    /\ ncalls = 2
    /\ Len(collection_logs) = 2
    /\ collection_logs[1].status = "FAILED"
    /\ collection_logs[1].error_message = PhysiciansErr
    /\ collection_logs[2].status = "SUCCESS"
    /\ IsCollect(last) /\ last.records = << RecNoNpi, RecFull >>
    /\ Len(procedure_data) = 1 /\ procedure_data[1].npi = "n1"
    /\ {r.npi : r \in physicians} = {"n1"}

\* C19: a batch write that fails leaves its table as it was before the
\* batch, whichever statement of the batch failed: a failed
\* save_physician_data (called directly or by collect_year_data) leaves
\* physicians unchanged, and a failed save_procedure_data leaves procedure_data
\* unchanged.
C19_BatchAllOrNothing ==
    [][ /\ (IsSave(last') /\ ~last'.ok) => physicians' = physicians
        /\ (IsCollect(last') /\ last'.caught = PhysiciansErr)
              => /\ physicians' = physicians
                 /\ procedure_data' = procedure_data
        /\ (IsCollect(last') /\ last'.caught = ProceduresErr)
              => procedure_data' = procedure_data ]_vars

\* a batch of two providers that are not in the store failed: neither is in
\* the store
C19_Witness ==
    /\ IsSave(last) /\ ~last.ok
    /\ Len(last.batch) = 2
    /\ last.batch[1].npi # last.batch[2].npi
    /\ physicians = {}

\* C20: for a year that is not a key of resource_ids, collect_year_data
\* issues no request and leaves physicians and procedure_data unchanged, and
\* (when the NO_DATA log write does not fail) it appends one NO_DATA row with
\* zero counts and returns (0, 0).
C20_NoResourceId ==
    [][ (IsCollect(last') /\ last'.year \notin resource_ids)
        => /\ last'.fetch = "none"
           /\ last'.records = << >>
           /\ physicians' = physicians
           /\ procedure_data' = procedure_data
           /\ last'.caught = NoError =>
                /\ AppendedOneLog
                /\ NewLog.status = "NO_DATA"
                /\ NewLog.year = last'.year
                /\ NewLog.records_collected = 0
                /\ NewLog.physicians_found = 0
                /\ ~last'.raised
                /\ last'.physicians = 0 /\ last'.procedures = 0 ]_vars

\* 2017 was asked for on a store that held the rows of 2022
C20_Witness ==
    /\ ncalls = 2
    /\ IsCollect(last) /\ last.year = 2017 /\ last.fetch = "none"
    /\ last.caught = NoError /\ ~last.raised
    /\ physicians # {} /\ procedure_data # << >>
    /\ Len(collection_logs) = 2
    /\ collection_logs[1].status = "SUCCESS" /\ collection_logs[1].year = 2022
    /\ LastLog.status = "NO_DATA" /\ LastLog.year = 2017

\* ------------------------------------- claims on a failing classification
\* the classifier's decision on a record it can classify
Accepts(record) == is_atlanta_area(record) /\ is_orthopedic(record)

\* the position of the first record of rs whose classification raises
FirstRaise(rs) ==
    CHOOSE k \in 1..Len(rs) :
        ClassifyRaises(rs[k]) /\ \A j \in 1..(k-1) : ~ClassifyRaises(rs[j])

\* C21: when the classification of the k-th record of a response raises, the
\* fetcher returns the accepted records among the first k-1, in order, and
\* none of the later ones; collect_year_data (the extraction and the store
\* writes succeeding) then stores the providers and the service lines of
\* these records and appends one row, SUCCESS with their counts, or NO_DATA
\* when there is none; it appends no FAILED row and does not raise.
C21_PrefixOnClassifyError ==
    [][ (/\ IsCollect(last') /\ last'.fetch = "ok"
         /\ \E k \in 1..Len(last'.batch) : ClassifyRaises(last'.batch[k])
         /\ \A i \in 1..Len(last'.batch) : ~ExtractRaises(last'.batch[i]))
        => LET k      == FirstRaise(last'.batch)
               prefix == SelectSeq(SubSeq(last'.batch, 1, k - 1), Accepts)
           IN  /\ last'.records = prefix
               /\ ~last'.raised
               /\ AppendedOneLog
               /\ NewLog.status = IF prefix = << >> THEN "NO_DATA"
                                  ELSE "SUCCESS"
               /\ NewLog.physicians_found = Cardinality(KeysOf(last'))
               /\ NewLog.records_collected = Cardinality(LinesOf(last'))
               /\ \A i \in 1..Len(prefix) :
                     prefix[i].Rndrng_NPI # "" =>
                        \E r \in physicians' : r.npi = prefix[i].Rndrng_NPI
               /\ Len(procedure_data')
                     = Len(procedure_data) + Cardinality(LinesOf(last'))
               /\ prefix = << >> => physicians' = physicians ]_vars

\* a response with an accepted record followed by a record whose city is
\* null: the accepted record is stored and the row says SUCCESS
C21_Witness ==
    /\ IsCollect(last) /\ last.batch = << RecFull, RecNullCity >>
    /\ last.records = << RecFull >>
    /\ LastLog.status = "SUCCESS" /\ LastLog.physicians_found = 1
    /\ \E r \in physicians : r.npi = "n1"
    /\ procedure_data # << >>

====
